---- MODULE Spec2Model ----
(***************************************************************************)
(* Model of the campus wallet ledger (walletRouter and its tables).        *)
(*                                                                         *)
(* Every tRPC handler is an async function: it runs up to its next await   *)
(* (a database statement, a gateway call), and other requests and timer    *)
(* callbacks run between two awaits.  A handler is therefore a sequence of *)
(* steps, one per statement that reads or writes shared state; the values  *)
(* a handler keeps in local constants (senderWallet[0], wallet[0], ...)    *)
(* are kept in its request record.  A db.transaction block commits all of  *)
(* its writes in one step or none (rollback).                              *)
(*                                                                         *)
(* Wallet ids are identified with the owning user id (wallets.userId is    *)
(* unique).  Amounts are integers in cents.                                *)
(***************************************************************************)
EXTENDS Integers, Sequences, FiniteSets, TLC

\* ---------------------------------------------------------------- bounds
NUsers == 2
MaxInFlight == 2
MaxOps == 4

Users == 1..NUsers
Slots == 1..MaxInFlight

\* ------------------------------------------------------------ input sets
\* amounts accepted by fundWalletSchema (100..10000000)
FundAmounts == {10152}
\* amounts accepted by transferSchema (10..500000)
TransferAmounts == {50, 6000}
\* amounts accepted by payMerchant's input (>= 10)
MerchantAmounts == {2000}
\* amounts accepted by billPaymentSchema (>= 50)
BillAmounts == {3000}
\* amounts accepted by withdrawSchema (100..500000)
WithdrawAmounts == {1000}

\* --------------------------------------------------------- program constants
DefaultDailyLimit == 500000
DefaultMonthlyLimit == 2000000
WithdrawFee == 1500
TransferMinFee == 100
BillMinFee == 200

\* wallet_merchants rows (no handler inserts them; they are provisioned data).
\* transactionFeePercentage is the stored column, a one-element tuple holding
\* hundredths of a percent, or << >> for NULL.  feeSet tells whether the row
\* was inserted with a percentage; without one the row holds the column
\* default '0.00'.
ColumnDefaultFee == << 0 >>
MerchantIds == {1, 2}
Merchants == [m \in MerchantIds |->
                IF m = 1 THEN [userId |-> 1, feeSet |-> FALSE,
                               transactionFeePercentage |-> ColumnDefaultFee]
                         ELSE [userId |-> 2, feeSet |-> TRUE,
                               transactionFeePercentage |-> << 250 >>]]

VARIABLES
  wallets,      \* wallets table: user -> row
  txs,          \* wallet_transactions table, in insertion (id) order
  holds,        \* wallet_holds table, in insertion order
  bills,        \* wallet_bills table, in insertion order
  banks,        \* users that own a (verified) wallet_banks row
  recipients,   \* wallet_recipients table: <<userId, recipientId>> -> totals
  merchantStats,\* wallet_merchants.monthlyVolume / totalTransactions
  charges,      \* the payment gateway's charges: reference -> status
  reqs,         \* the requests in flight: slot -> handler position and locals
  timers,       \* the setTimeout callbacks not yet run
  now,          \* logical wall clock, stamps completedAt
  ops,          \* number of money requests started so far
  qrCodes,      \* wallet_qr_codes table, in insertion order
  reply         \* what the last query or scan returned to its caller

vars == <<wallets, txs, holds, bills, banks, recipients, merchantStats,
          charges, reqs, timers, now, ops, qrCodes, reply>>

\* ------------------------------------------------------------ pure helpers
Max(a, b) == IF a >= b THEN a ELSE b

\* Math.round(x * num / den) for x >= 0: round half up
RoundDiv(x, den) == (2 * x + den) \div (2 * den)

\* a funding fee cut off to a whole unit instead of rounded
FundFee_Truncated(amount) == (amount * 15) \div 1000

\* fundWallet: Math.round(input.amount * 0.015)
FundFee(amount) == RoundDiv(amount * 15, 1000)

\* transfer: Math.max(100, Math.round(amount * 0.005))
TransferFee(amount) == Max(TransferMinFee, RoundDiv(amount * 5, 1000))

\* payBill: Math.max(200, Math.round(amount * 0.015))
BillFee(amount) == Max(BillMinFee, RoundDiv(amount * 15, 1000))

\* payMerchant: Math.round(amount * (parseFloat(pct || '1.00') / 100))
PlatformDefaultFee == 100
FeePercentage(stored) == IF stored = << >> THEN PlatformDefaultFee ELSE stored[1]
MerchantFee(amount, stored) == RoundDiv(amount * FeePercentage(stored), 10000)

\* rows is the number of rows of the wallets table with this userId
NoWallet == [exists |-> FALSE, rows |-> 0, balance |-> 0, availableBalance |-> 0,
             dailyLimit |-> 0, monthlyLimit |-> 0]

\* the row initialize inserts: column defaults of the wallets table
NewWallet == [exists |-> TRUE, rows |-> 1, balance |-> 0, availableBalance |-> 0,
              dailyLimit |-> DefaultDailyLimit,
              monthlyLimit |-> DefaultMonthlyLimit]

NoRef == <<"", 0, "">>
NoTx == [walletId |-> 0, reference |-> NoRef, type |-> "", amount |-> 0,
         fee |-> 0, netAmount |-> 0, balanceBefore |-> 0, balanceAfter |-> 0,
         status |-> "", completedAt |-> 0, failureReason |-> ""]

IdleReq == [pc |-> "idle", op |-> "", id |-> 0, user |-> 0, amount |-> 0,
            target |-> 0, w |-> NoWallet, w2 |-> NoWallet, t |-> NoTx,
            message |-> ""]

TxIds == 1..Len(txs)
References == {txs[i].reference : i \in TxIds}
TxOf(ref) == CHOOSE i \in TxIds : txs[i].reference = ref

\* UPDATE wallet_transactions SET ... WHERE reference = ref
UpdateTx(ref, new) ==
  [i \in TxIds |-> IF txs[i].reference = ref THEN new ELSE txs[i]]

Finish(s) == reqs' = [reqs EXCEPT ![s] = IdleReq]
Goto(s, pc) == reqs' = [reqs EXCEPT ![s].pc = pc]

\* no query or scan has returned yet
NoReply == [op |-> "none"]

\* a new request is taken by the lowest free slot
FreeSlot(s) ==
  /\ reqs[s].pc = "idle"
  /\ \A r \in Slots : r < s => reqs[r].pc # "idle"

\* money requests are counted against MaxOps
CanStart(s) == FreeSlot(s) /\ ops < MaxOps

Begin(s, op, user, amount, target, pc) ==
  /\ reqs' = [reqs EXCEPT ![s] = [IdleReq EXCEPT !.pc = pc, !.op = op,
                 !.id = ops + 1, !.user = user, !.amount = amount,
                 !.target = target, !.w = wallets[user]]]
  /\ ops' = ops + 1

\* The tables as any number of earlier initialize and addBank calls left them:
\* some users have a wallet (balance 0), some a verified bank account.
Init ==
  /\ wallets \in [Users -> {NoWallet, NewWallet}]
  /\ txs = <<>>
  /\ holds = <<>>
  /\ bills = <<>>
  /\ banks \in SUBSET Users
  /\ recipients = [p \in Users \X Users |-> [totalTransactions |-> 0, totalAmount |-> 0]]
  /\ merchantStats = [m \in MerchantIds |-> [monthlyVolume |-> 0, totalTransactions |-> 0]]
  /\ charges = <<>>
  /\ reqs = [s \in Slots |-> IdleReq]
  /\ timers = {}
  /\ now = 0
  /\ ops = 0
  /\ qrCodes = <<>>
  /\ reply = NoReply

\* ------------------------------------------------------------ initialize
\* existing-wallet lookup; CONFLICT when the caller has a wallet
Initialize_Check(s, u) ==
  /\ CanStart(s)
  /\ IF wallets[u].exists
       THEN UNCHANGED <<reqs, ops>>
       ELSE Begin(s, "initialize", u, 0, 0, "init_insert")
  /\ UNCHANGED <<wallets, txs, holds, bills, banks, recipients, merchantStats,
                 charges, timers, now, qrCodes, reply>>

\* an insert into a wallets table without the unique index on userId
InsertWallet_NoUniqueIndex(u) ==
  [wallets EXCEPT ![u] = [NewWallet EXCEPT !.rows = wallets[u].rows + 1]]

\* insert into wallets values (userId, pin hash, salt): wallets.userId is
\* unique, the insert of a second row for the user throws
InsertWallet(u) ==
  IF wallets[u].rows > 0 THEN wallets
  ELSE [wallets EXCEPT ![u] = NewWallet]

\* the PIN is hashed, then the row is inserted
Initialize_Insert(s) ==
  /\ reqs[s].pc = "init_insert"
  /\ wallets' = InsertWallet(reqs[s].user)
  /\ Finish(s)
  /\ UNCHANGED <<txs, holds, bills, banks, recipients, merchantStats,
                 charges, timers, now, ops, qrCodes, reply>>

\* ------------------------------------------------------------ fundWallet
FundRef(id) == <<"VH", id, "">>

\* wallet lookup; NOT_FOUND without a wallet
FundWallet_Start(s, u, amount) ==
  /\ CanStart(s)
  /\ IF wallets[u].exists
       THEN Begin(s, "fundWallet", u, amount, 0, "fund_init")
       ELSE UNCHANGED <<reqs, ops>>
  /\ UNCHANGED <<wallets, txs, holds, bills, banks, recipients, merchantStats,
                 charges, timers, now, qrCodes, reply>>

PendingDeposit(r) ==
  [walletId |-> r.user, reference |-> FundRef(r.id), type |-> "deposit",
   amount |-> r.amount, fee |-> FundFee(r.amount),
   netAmount |-> r.amount - FundFee(r.amount),
   balanceBefore |-> r.w.balance, balanceAfter |-> r.w.balance,
   status |-> "pending", completedAt |-> 0, failureReason |-> ""]

\* the gateway initializes the charge, then the pending record is inserted;
\* a refused or failed initialization throws before any write
FundWallet_Initialize(s) ==
  /\ reqs[s].pc = "fund_init"
  /\ \E accepted \in BOOLEAN :
       IF accepted
         THEN /\ charges' = charges @@ (FundRef(reqs[s].id) :> "pending")
              /\ txs' = Append(txs, PendingDeposit(reqs[s]))
         ELSE UNCHANGED <<charges, txs>>
  /\ Finish(s)
  /\ UNCHANGED <<wallets, holds, bills, banks, recipients, merchantStats,
                 timers, now, ops, qrCodes, reply>>

\* the customer pays the charge out-of-band at the gateway
Gateway_Pay(ref) ==
  /\ ref \in DOMAIN charges
  /\ charges[ref] = "pending"
  /\ charges' = [charges EXCEPT ![ref] = "success"]
  /\ UNCHANGED <<wallets, txs, holds, bills, banks, recipients, merchantStats,
                 reqs, timers, now, ops, qrCodes, reply>>

\* ---------------------------------------------------------- verifyFunding
\* transaction lookup by reference (any caller, any reference)
VerifyFunding_Start(s, ref) ==
  /\ CanStart(s)
  /\ IF ref \in References
       THEN /\ reqs' = [reqs EXCEPT ![s] = [IdleReq EXCEPT !.pc = "verify_gateway",
                          !.op = "verifyFunding", !.id = ops + 1,
                          !.t = txs[TxOf(ref)]]]
            /\ ops' = ops + 1
       ELSE UNCHANGED <<reqs, ops>>
  /\ UNCHANGED <<wallets, txs, holds, bills, banks, recipients, merchantStats,
                 charges, timers, now, qrCodes, reply>>

\* response.data.message of a verification that did not succeed
GatewayMessages == {"", "Declined"}

\* a failed update that records the reason and leaves the status as it is
MarkFailed_StatusKept(t, message) ==
  [t EXCEPT !.failureReason = IF message = "" THEN "Payment failed" ELSE message,
            !.completedAt = now + 1]

\* status failed, failureReason = response.data.message || 'Payment failed'
MarkFailed(t, message) ==
  [t EXCEPT !.status = "failed",
            !.failureReason = IF message = "" THEN "Payment failed" ELSE message,
            !.completedAt = now + 1]

\* GET /transaction/verify, then the wallet lookup.  An unknown reference or
\* a timeout throws; a charge that is not 'success' leads to the failed
\* update; on 'success' the wallet row is read.  (A charge stays 'success'
\* once paid, so the gateway's answer and the wallet read that follows it are
\* one step.)
VerifyFunding_Gateway(s) ==
  /\ reqs[s].pc = "verify_gateway"
  /\ LET ref == reqs[s].t.reference IN
     \/ Finish(s)
     \/ /\ ref \in DOMAIN charges
        /\ charges[ref] # "success"
        /\ \E message \in GatewayMessages :
             reqs' = [reqs EXCEPT ![s].message = message, ![s].pc = "verify_failed"]
     \/ /\ ref \in DOMAIN charges
        /\ charges[ref] = "success"
        /\ reqs' = [reqs EXCEPT ![s].w = wallets[reqs[s].t.walletId],
                                ![s].pc = "verify_commit"]
  /\ UNCHANGED <<wallets, txs, holds, bills, banks, recipients, merchantStats,
                 charges, timers, now, ops, qrCodes, reply>>

\* the record is marked failed and the handler throws BAD_REQUEST
VerifyFunding_Failed(s) ==
  /\ reqs[s].pc = "verify_failed"
  /\ LET ref == reqs[s].t.reference IN
       txs' = UpdateTx(ref, MarkFailed(txs[TxOf(ref)], reqs[s].message))
  /\ now' = now + 1
  /\ Finish(s)
  /\ UNCHANGED <<wallets, holds, bills, banks, recipients, merchantStats,
                 charges, timers, ops, qrCodes, reply>>

MarkDeposited(r, t) ==
  [t EXCEPT !.status = "completed",
            !.balanceBefore = r.w.balance,
            !.balanceAfter = r.w.balance + r.t.netAmount,
            !.completedAt = now + 1]

\* db.transaction: absolute balance writes from the snapshot, record completed
VerifyFunding_Commit(s) ==
  /\ reqs[s].pc = "verify_commit"
  /\ LET r == reqs[s] IN
     /\ wallets' = [wallets EXCEPT ![r.t.walletId].balance = r.w.balance + r.t.netAmount,
                      ![r.t.walletId].availableBalance = r.w.availableBalance + r.t.netAmount]
     /\ txs' = UpdateTx(r.t.reference, MarkDeposited(r, txs[TxOf(r.t.reference)]))
  /\ now' = now + 1
  /\ Finish(s)
  /\ UNCHANGED <<holds, bills, banks, recipients, merchantStats, charges,
                 timers, ops, qrCodes, reply>>

\* --------------------------------------------------------------- transfer
TransferRef(id, leg) == <<"TRF", id, leg>>

\* sum(walletTransactions.amount) over the wallet's completed 'transfer'
\* records (every record of the model lies in the current day and month)
TransferTotal(walletId) ==
  LET f[i \in 0..Len(txs)] ==
        IF i = 0 THEN 0
        ELSE f[i - 1] + (IF /\ txs[i].walletId = walletId
                            /\ txs[i].status = "completed"
                            /\ txs[i].type = "transfer"
                         THEN txs[i].amount ELSE 0)
  IN f[Len(txs)]

\* sender wallet lookup, PIN check, available-balance check
Transfer_Start(s, u, amount, target) ==
  /\ CanStart(s)
  /\ \E pinValid \in BOOLEAN :
       IF wallets[u].exists /\ pinValid /\ amount <= wallets[u].availableBalance
         THEN Begin(s, "transfer", u, amount, target, "transfer_limits")
         ELSE UNCHANGED <<reqs, ops>>
  /\ UNCHANGED <<wallets, txs, holds, bills, banks, recipients, merchantStats,
                 charges, timers, now, qrCodes, reply>>

\* daily and monthly totals, compared with the snapshot's limits
Transfer_Limits(s) ==
  /\ reqs[s].pc = "transfer_limits"
  /\ LET r == reqs[s]
         dailySpent == TransferTotal(r.user)
         monthlySpent == TransferTotal(r.user)
     IN IF \/ dailySpent + r.amount > r.w.dailyLimit
           \/ monthlySpent + r.amount > r.w.monthlyLimit
          THEN Finish(s)
          ELSE Goto(s, "transfer_recipient")
  /\ UNCHANGED <<wallets, txs, holds, bills, banks, recipients, merchantStats,
                 charges, timers, now, ops, qrCodes, reply>>

\* recipient lookup (users joined with wallets), self-transfer check,
\* recipient wallet lookup
Transfer_Recipient(s) ==
  /\ reqs[s].pc = "transfer_recipient"
  /\ LET r == reqs[s] IN
       IF r.target \in Users /\ wallets[r.target].exists /\ r.target # r.user
         THEN reqs' = [reqs EXCEPT ![s].w2 = wallets[r.target],
                                   ![s].pc = "transfer_commit"]
         ELSE Finish(s)
  /\ UNCHANGED <<wallets, txs, holds, bills, banks, recipients, merchantStats,
                 charges, timers, now, ops, qrCodes, reply>>

CompletedTx(walletId, ref, type, amount, fee, net, before, after) ==
  [walletId |-> walletId, reference |-> ref, type |-> type, amount |-> amount,
   fee |-> fee, netAmount |-> net, balanceBefore |-> before,
   balanceAfter |-> after, status |-> "completed", completedAt |-> now + 1,
   failureReason |-> ""]

\* a transfer whose recipient record carries the whole amount, the fee not
\* taken off
TransferRecords_FullCredit(r) ==
  LET fee == TransferFee(r.amount)
      senderNewBalance == r.w.balance - r.amount
  IN << CompletedTx(r.user, TransferRef(r.id, "S"), "transfer", -r.amount, fee,
                    -r.amount, r.w.balance, senderNewBalance),
        CompletedTx(r.target, TransferRef(r.id, "R"), "transfer", r.amount, 0,
                    r.amount, r.w2.balance, r.w2.balance + r.amount),
        CompletedTx(r.user, TransferRef(r.id, "F"), "fee", -fee, 0, -fee,
                    senderNewBalance, senderNewBalance) >>

\* the three records of a transfer: sender, recipient, fee
TransferRecords(r) ==
  LET fee == TransferFee(r.amount)
      netAmount == r.amount - fee
      senderNewBalance == r.w.balance - r.amount
  IN << CompletedTx(r.user, TransferRef(r.id, "S"), "transfer", -r.amount, fee,
                    -r.amount, r.w.balance, senderNewBalance),
        CompletedTx(r.target, TransferRef(r.id, "R"), "transfer", netAmount, 0,
                    netAmount, r.w2.balance, r.w2.balance + netAmount),
        CompletedTx(r.user, TransferRef(r.id, "F"), "fee", -fee, 0, -fee,
                    senderNewBalance, senderNewBalance) >>

\* a transfer that credits the recipient's row with the whole amount
TransferWallets_FullCredit(r) ==
  [[wallets EXCEPT ![r.user].balance = r.w.balance - r.amount,
                   ![r.user].availableBalance = r.w.availableBalance - r.amount]
     EXCEPT ![r.target].balance = r.w2.balance + r.amount,
            ![r.target].availableBalance = r.w2.availableBalance + r.amount]

\* a transfer that writes only the sender's row (the receiver's credit left
\* to a later statement outside the transaction)
TransferWallets_DebitOnly(r) ==
  [wallets EXCEPT ![r.user].balance = r.w.balance - r.amount,
                  ![r.user].availableBalance = r.w.availableBalance - r.amount]

\* the two wallet rows a transfer writes, sender first, from the snapshots
TransferWallets(r) ==
  LET netAmount == r.amount - TransferFee(r.amount) IN
  [[wallets EXCEPT ![r.user].balance = r.w.balance - r.amount,
                   ![r.user].availableBalance = r.w.availableBalance - r.amount]
     EXCEPT ![r.target].balance = r.w2.balance + netAmount,
            ![r.target].availableBalance = r.w2.availableBalance + netAmount]

\* the value a successful transfer returns
TransferResult(r) ==
  [success |-> TRUE, reference |-> TransferRef(r.id, ""), amount |-> r.amount,
   fee |-> TransferFee(r.amount), newBalance |-> r.w.balance - r.amount]

\* db.transaction of transfer
Transfer_Commit(s) ==
  /\ reqs[s].pc = "transfer_commit"
  /\ LET r == reqs[s] IN
     /\ wallets' = TransferWallets(r)
     /\ txs' = txs \o TransferRecords(r)
     /\ recipients' = [recipients EXCEPT
          ![<<r.user, r.target>>].totalTransactions = @ + 1,
          ![<<r.user, r.target>>].totalAmount = @ + r.amount]
  /\ now' = now + 1
  /\ Finish(s)
  /\ UNCHANGED <<holds, bills, banks, merchantStats, charges, timers, ops,
                 qrCodes, reply>>

\* ------------------------------------------------------------- payMerchant
MerchantRef(id, leg) == <<"MERCH", id, leg>>

\* sender wallet lookup, PIN check, available-balance check
PayMerchant_Start(s, u, amount, merchantId) ==
  /\ CanStart(s)
  /\ \E pinValid \in BOOLEAN :
       IF wallets[u].exists /\ pinValid /\ amount <= wallets[u].availableBalance
         THEN Begin(s, "payMerchant", u, amount, merchantId, "merchant_lookup")
         ELSE UNCHANGED <<reqs, ops>>
  /\ UNCHANGED <<wallets, txs, holds, bills, banks, recipients, merchantStats,
                 charges, timers, now, qrCodes, reply>>

\* merchant lookup and merchant wallet lookup
PayMerchant_Lookup(s) ==
  /\ reqs[s].pc = "merchant_lookup"
  /\ LET r == reqs[s] IN
       IF r.target \in MerchantIds /\ wallets[Merchants[r.target].userId].exists
         THEN reqs' = [reqs EXCEPT ![s].w2 = wallets[Merchants[r.target].userId],
                                   ![s].pc = "merchant_commit"]
         ELSE Finish(s)
  /\ UNCHANGED <<wallets, txs, holds, bills, banks, recipients, merchantStats,
                 charges, timers, now, ops, qrCodes, reply>>

\* the records of a merchant payment: sender, merchant, and fee when fee > 0
MerchantRecords(r) ==
  LET owner == Merchants[r.target].userId
      fee == MerchantFee(r.amount, Merchants[r.target].transactionFeePercentage)
      merchantAmount == r.amount - fee
      merchantNewBalance == r.w2.balance + merchantAmount
  IN << CompletedTx(r.user, MerchantRef(r.id, "S"), "payment", -r.amount, 0,
                    -r.amount, r.w.balance, r.w.balance - r.amount),
        CompletedTx(owner, MerchantRef(r.id, "M"), "payment", merchantAmount,
                    fee, merchantAmount, r.w2.balance, merchantNewBalance) >>
     \o (IF fee > 0
           THEN << CompletedTx(owner, MerchantRef(r.id, "F"), "fee", -fee, 0,
                               -fee, merchantNewBalance, merchantNewBalance) >>
           ELSE << >>)

\* the two wallet rows a merchant payment writes, sender first
MerchantWallets(r) ==
  LET owner == Merchants[r.target].userId
      merchantAmount == r.amount - MerchantFee(r.amount, Merchants[r.target].transactionFeePercentage)
  IN
  [[wallets EXCEPT ![r.user].balance = r.w.balance - r.amount,
                   ![r.user].availableBalance = r.w.availableBalance - r.amount]
     EXCEPT ![owner].balance = r.w2.balance + merchantAmount,
            ![owner].availableBalance = r.w2.availableBalance + merchantAmount]

\* db.transaction of payMerchant
PayMerchant_Commit(s) ==
  /\ reqs[s].pc = "merchant_commit"
  /\ LET r == reqs[s] IN
     /\ wallets' = MerchantWallets(r)
     /\ txs' = txs \o MerchantRecords(r)
     /\ merchantStats' = [merchantStats EXCEPT
          ![r.target].monthlyVolume = @ + r.amount,
          ![r.target].totalTransactions = @ + 1]
  /\ now' = now + 1
  /\ Finish(s)
  /\ UNCHANGED <<holds, bills, banks, recipients, charges, timers, ops, qrCodes, reply>>

\* ----------------------------------------------------------------- payBill
BillRef(id) == <<"BILL", id, "">>

\* wallet lookup, PIN check, balance checks without and with the fee
PayBill_Start(s, u, amount) ==
  /\ CanStart(s)
  /\ \E pinValid \in BOOLEAN :
       IF /\ wallets[u].exists
          /\ pinValid
          /\ amount <= wallets[u].availableBalance
          /\ amount + BillFee(amount) <= wallets[u].availableBalance
         THEN Begin(s, "payBill", u, amount, 0, "bill_commit")
         ELSE UNCHANGED <<reqs, ops>>
  /\ UNCHANGED <<wallets, txs, holds, bills, banks, recipients, merchantStats,
                 charges, timers, now, qrCodes, reply>>

\* the 'processing' record of a bill payment
BillRecord(r) ==
  LET totalAmount == r.amount + BillFee(r.amount) IN
  [walletId |-> r.user, reference |-> BillRef(r.id), type |-> "bill_payment",
   amount |-> -totalAmount, fee |-> BillFee(r.amount), netAmount |-> -totalAmount,
   balanceBefore |-> r.w.balance, balanceAfter |-> r.w.balance - totalAmount,
   status |-> "processing", completedAt |-> 0, failureReason |-> ""]

\* db.transaction of payBill.  isSuccess = false throws inside the
\* transaction, which rolls every write back; otherwise the wallet is debited
\* at once, the bill and the record are 'processing' and the completion
\* callback is scheduled.
PayBill_Commit(s) ==
  /\ reqs[s].pc = "bill_commit"
  /\ LET r == reqs[s]
         totalAmount == r.amount + BillFee(r.amount)
     IN \E isSuccess \in BOOLEAN :
          IF isSuccess
            THEN /\ wallets' = [wallets EXCEPT
                       ![r.user].balance = r.w.balance - totalAmount,
                       ![r.user].availableBalance = r.w.availableBalance - totalAmount]
                 /\ bills' = Append(bills, [userId |-> r.user, amount |-> r.amount,
                       fee |-> BillFee(r.amount), billReference |-> BillRef(r.id),
                       status |-> "processing"])
                 /\ txs' = Append(txs, BillRecord(r))
                 /\ timers' = timers \cup {[kind |-> "bill", reference |-> BillRef(r.id),
                       user |-> r.user, balance |-> 0, totalAmount |-> 0,
                       billId |-> Len(bills) + 1]}
            ELSE UNCHANGED <<wallets, bills, txs, timers>>
  /\ Finish(s)
  /\ UNCHANGED <<holds, banks, recipients, merchantStats, charges, now, ops,
                 qrCodes, reply>>

MarkCompleted(t) == [t EXCEPT !.status = "completed", !.completedAt = now + 1]

\* setTimeout callback of payBill: bill and record become 'completed'
PayBill_Timer(tm) ==
  /\ tm \in timers
  /\ tm.kind = "bill"
  /\ bills' = [bills EXCEPT ![tm.billId].status = "completed"]
  /\ txs' = UpdateTx(tm.reference, MarkCompleted(txs[TxOf(tm.reference)]))
  /\ now' = now + 1
  /\ timers' = timers \ {tm}
  /\ UNCHANGED <<wallets, holds, banks, recipients, merchantStats, charges,
                 reqs, ops, qrCodes, reply>>

\* ---------------------------------------------------------------- withdraw
WithdrawRef(id) == <<"WDL", id, "">>

\* wallet lookup, PIN check, available-balance check
Withdraw_Start(s, u, amount, bankOwner) ==
  /\ CanStart(s)
  /\ \E pinValid \in BOOLEAN :
       IF wallets[u].exists /\ pinValid /\ amount <= wallets[u].availableBalance
         THEN Begin(s, "withdraw", u, amount, bankOwner, "withdraw_hold")
         ELSE UNCHANGED <<reqs, ops>>
  /\ UNCHANGED <<wallets, txs, holds, bills, banks, recipients, merchantStats,
                 charges, timers, now, qrCodes, reply>>

\* a withdraw that places the hold before it checks amount + fee against the
\* available balance, and leaves it behind when the check fails
Withdraw_Hold_HoldFirst(s) ==
  /\ reqs[s].pc = "withdraw_hold"
  /\ LET r == reqs[s]
         totalAmount == r.amount + WithdrawFee
     IN IF r.target = r.user /\ r.target \in banks
          THEN /\ holds' = Append(holds, [walletId |-> r.user, amount |-> totalAmount,
                              reference |-> WithdrawRef(r.id), released |-> FALSE])
               /\ IF totalAmount <= r.w.availableBalance
                    THEN Goto(s, "withdraw_available")
                    ELSE Finish(s)
          ELSE /\ Finish(s)
               /\ UNCHANGED holds
  /\ UNCHANGED <<wallets, txs, bills, banks, recipients, merchantStats,
                 charges, timers, now, ops, qrCodes, reply>>

\* a withdraw that skips the check of amount + fee against the available
\* balance and places the hold on the strength of the first check alone
Withdraw_Hold_NoFeeCheck(s) ==
  /\ reqs[s].pc = "withdraw_hold"
  /\ LET r == reqs[s]
         totalAmount == r.amount + WithdrawFee
     IN IF r.target = r.user /\ r.target \in banks
          THEN /\ holds' = Append(holds, [walletId |-> r.user, amount |-> totalAmount,
                              reference |-> WithdrawRef(r.id), released |-> FALSE])
               /\ Goto(s, "withdraw_available")
          ELSE /\ Finish(s)
               /\ UNCHANGED holds
  /\ UNCHANGED <<wallets, txs, bills, banks, recipients, merchantStats,
                 charges, timers, now, ops, qrCodes, reply>>

\* bank lookup (the caller's own, verified), balance check with the fee,
\* then the hold is inserted.  (Bank rows are never removed, so the lookup
\* and the insert that follows it are one step.)
Withdraw_Hold(s) ==
  /\ reqs[s].pc = "withdraw_hold"
  /\ LET r == reqs[s]
         totalAmount == r.amount + WithdrawFee
     IN IF /\ r.target = r.user
           /\ r.target \in banks
           /\ totalAmount <= r.w.availableBalance
          THEN /\ holds' = Append(holds, [walletId |-> r.user, amount |-> totalAmount,
                              reference |-> WithdrawRef(r.id), released |-> FALSE])
               /\ Goto(s, "withdraw_available")
          ELSE /\ Finish(s)
               /\ UNCHANGED holds
  /\ UNCHANGED <<wallets, txs, bills, banks, recipients, merchantStats,
                 charges, timers, now, ops, qrCodes, reply>>

\* update wallets set availableBalance = snapshot - totalAmount
Withdraw_Available(s) ==
  /\ reqs[s].pc = "withdraw_available"
  /\ LET r == reqs[s] IN
       wallets' = [wallets EXCEPT ![r.user].availableBalance =
                     r.w.availableBalance - (r.amount + WithdrawFee)]
  /\ Goto(s, "withdraw_record")
  /\ UNCHANGED <<txs, holds, bills, banks, recipients, merchantStats,
                 charges, timers, now, ops, qrCodes, reply>>

\* the 'processing' record of a withdrawal
WithdrawRecord(r) ==
  LET totalAmount == r.amount + WithdrawFee IN
  [walletId |-> r.user, reference |-> WithdrawRef(r.id), type |-> "withdrawal",
   amount |-> -totalAmount, fee |-> WithdrawFee, netAmount |-> -totalAmount,
   balanceBefore |-> r.w.balance, balanceAfter |-> r.w.balance,
   status |-> "processing", completedAt |-> 0, failureReason |-> ""]

\* the record is inserted and the settlement callback is scheduled; the
\* callback closes over the wallet snapshot of the request
Withdraw_Record(s) ==
  /\ reqs[s].pc = "withdraw_record"
  /\ LET r == reqs[s] IN
     /\ txs' = Append(txs, WithdrawRecord(r))
     /\ timers' = timers \cup {[kind |-> "withdraw", reference |-> WithdrawRef(r.id),
           user |-> r.user, balance |-> r.w.balance,
           totalAmount |-> r.amount + WithdrawFee, billId |-> 0]}
  /\ Finish(s)
  /\ UNCHANGED <<wallets, holds, bills, banks, recipients, merchantStats,
                 charges, now, ops, qrCodes, reply>>

\* the balance the settlement writes: the request's snapshot minus the total
SettledBalance(tm) == tm.balance - tm.totalAmount

MarkWithdrawn(tm, t) ==
  [t EXCEPT !.status = "completed",
            !.balanceAfter = SettledBalance(tm),
            !.completedAt = now + 1]

\* setTimeout callback of withdraw (one db.transaction): the hold is
\* released, the balance is written from the snapshot, the record completed
Withdraw_Timer(tm) ==
  /\ tm \in timers
  /\ tm.kind = "withdraw"
  /\ holds' = [i \in 1..Len(holds) |->
                 IF holds[i].reference = tm.reference
                   THEN [holds[i] EXCEPT !.released = TRUE] ELSE holds[i]]
  /\ wallets' = [wallets EXCEPT ![tm.user].balance = SettledBalance(tm)]
  /\ txs' = UpdateTx(tm.reference, MarkWithdrawn(tm, txs[TxOf(tm.reference)]))
  /\ now' = now + 1
  /\ timers' = timers \ {tm}
  /\ UNCHANGED <<bills, banks, recipients, merchantStats, charges, reqs, ops,
                 qrCodes, reply>>

\* ----------------------------------------------------------------- addBank
\* insert into wallet_banks with isVerified = true (one account per user here)
AddBank(u) ==
  /\ u \notin banks
  /\ ops < MaxOps
  /\ banks' = banks \cup {u}
  /\ ops' = ops + 1
  /\ UNCHANGED <<wallets, txs, holds, bills, recipients, merchantStats,
                 charges, reqs, timers, now, qrCodes, reply>>

Next ==
  \/ \E s \in Slots, u \in Users : Initialize_Check(s, u)
  \/ \E s \in Slots : Initialize_Insert(s)
  \/ \E s \in Slots, u \in Users, a \in FundAmounts : FundWallet_Start(s, u, a)
  \/ \E s \in Slots : FundWallet_Initialize(s)
  \/ \E ref \in DOMAIN charges : Gateway_Pay(ref)
  \/ \E s \in Slots, ref \in References \cup {NoRef} : VerifyFunding_Start(s, ref)
  \/ \E s \in Slots : VerifyFunding_Gateway(s)
  \/ \E s \in Slots : VerifyFunding_Failed(s)
  \/ \E s \in Slots : VerifyFunding_Commit(s)
  \/ \E s \in Slots, u \in Users, a \in TransferAmounts, target \in Users \cup {0} :
       Transfer_Start(s, u, a, target)
  \/ \E s \in Slots : Transfer_Limits(s)
  \/ \E s \in Slots : Transfer_Recipient(s)
  \/ \E s \in Slots : Transfer_Commit(s)
  \/ \E s \in Slots, u \in Users, a \in MerchantAmounts, m \in MerchantIds \cup {0} :
       PayMerchant_Start(s, u, a, m)
  \/ \E s \in Slots : PayMerchant_Lookup(s)
  \/ \E s \in Slots : PayMerchant_Commit(s)
  \/ \E s \in Slots, u \in Users, a \in BillAmounts : PayBill_Start(s, u, a)
  \/ \E s \in Slots : PayBill_Commit(s)
  \/ \E tm \in timers : PayBill_Timer(tm)
  \/ \E s \in Slots, u \in Users, a \in WithdrawAmounts, b \in Users :
       Withdraw_Start(s, u, a, b)
  \/ \E s \in Slots : Withdraw_Hold(s)
  \/ \E s \in Slots : Withdraw_Available(s)
  \/ \E s \in Slots : Withdraw_Record(s)
  \/ \E tm \in timers : Withdraw_Timer(tm)
  \/ \E u \in Users : AddBank(u)

Spec == Init /\ [][Next]_vars

\* ------------------------------------------------- transfers near the limits
\* The same handlers driven with amounts of the order of the daily limit:
\* one funding large enough to pay for two transfers that together exceed it.
LimitFundAmounts == {1000000}
LimitTransferAmounts == {250000, 300000}

NextLimits ==
  \/ \E s \in Slots, u \in Users, a \in LimitFundAmounts : FundWallet_Start(s, u, a)
  \/ \E s \in Slots : FundWallet_Initialize(s)
  \/ \E ref \in DOMAIN charges : Gateway_Pay(ref)
  \/ \E s \in Slots, ref \in References : VerifyFunding_Start(s, ref)
  \/ \E s \in Slots : VerifyFunding_Gateway(s)
  \/ \E s \in Slots : VerifyFunding_Failed(s)
  \/ \E s \in Slots : VerifyFunding_Commit(s)
  \/ \E s \in Slots, u \in Users, a \in LimitTransferAmounts, target \in Users :
       Transfer_Start(s, u, a, target)
  \/ \E s \in Slots : Transfer_Limits(s)
  \/ \E s \in Slots : Transfer_Recipient(s)
  \/ \E s \in Slots : Transfer_Commit(s)

SpecLimits == Init /\ [][NextLimits]_vars

\* -------------------------------------------- spending near the limits
\* payMerchant, payBill and withdraw driven with amounts of the order of the
\* daily limit (payMerchant and payBill accept any amount from their minimum
\* up, withdraw up to 500000).
LimitMerchantAmounts == {600000}
LimitBillAmounts == {600000}
LimitWithdrawAmounts == {300000}

NextSpending ==
  \/ \E s \in Slots, u \in Users, a \in LimitFundAmounts : FundWallet_Start(s, u, a)
  \/ \E s \in Slots : FundWallet_Initialize(s)
  \/ \E ref \in DOMAIN charges : Gateway_Pay(ref)
  \/ \E s \in Slots, ref \in References : VerifyFunding_Start(s, ref)
  \/ \E s \in Slots : VerifyFunding_Gateway(s)
  \/ \E s \in Slots : VerifyFunding_Failed(s)
  \/ \E s \in Slots : VerifyFunding_Commit(s)
  \/ \E s \in Slots, u \in Users, a \in LimitMerchantAmounts, m \in MerchantIds :
       PayMerchant_Start(s, u, a, m)
  \/ \E s \in Slots : PayMerchant_Lookup(s)
  \/ \E s \in Slots : PayMerchant_Commit(s)
  \/ \E s \in Slots, u \in Users, a \in LimitBillAmounts : PayBill_Start(s, u, a)
  \/ \E s \in Slots : PayBill_Commit(s)
  \/ \E tm \in timers : PayBill_Timer(tm)
  \/ \E s \in Slots, u \in Users, a \in LimitWithdrawAmounts :
       Withdraw_Start(s, u, a, u)
  \/ \E s \in Slots : Withdraw_Hold(s)
  \/ \E s \in Slots : Withdraw_Available(s)
  \/ \E s \in Slots : Withdraw_Record(s)
  \/ \E tm \in timers : Withdraw_Timer(tm)

SpecSpending == Init /\ [][NextSpending]_vars

\* ------------------------------------------------------ amounts and fees
\* The same handlers driven with amounts on both sides of a rounding step and
\* of the minimum fees: 50100 * 1.5% = 751.5, 20099 * 0.5% = 100.495,
\* 20100 * 0.5% = 100.5, 13500 * 1.5% = 202.5.
FeeFundAmounts == {50100}
FeeTransferAmounts == {50, 20099, 20100}
FeeBillAmounts == {50, 13500}

NextFees ==
  \/ \E s \in Slots, u \in Users, a \in FeeFundAmounts : FundWallet_Start(s, u, a)
  \/ \E s \in Slots : FundWallet_Initialize(s)
  \/ \E ref \in DOMAIN charges : Gateway_Pay(ref)
  \/ \E s \in Slots, ref \in References : VerifyFunding_Start(s, ref)
  \/ \E s \in Slots : VerifyFunding_Gateway(s)
  \/ \E s \in Slots : VerifyFunding_Failed(s)
  \/ \E s \in Slots : VerifyFunding_Commit(s)
  \/ \E s \in Slots, u \in Users, a \in FeeTransferAmounts, target \in Users :
       Transfer_Start(s, u, a, target)
  \/ \E s \in Slots : Transfer_Limits(s)
  \/ \E s \in Slots : Transfer_Recipient(s)
  \/ \E s \in Slots : Transfer_Commit(s)
  \/ \E s \in Slots, u \in Users, a \in FeeBillAmounts : PayBill_Start(s, u, a)
  \/ \E s \in Slots : PayBill_Commit(s)
  \/ \E tm \in timers : PayBill_Timer(tm)
  \/ \E s \in Slots, u \in Users, a \in WithdrawAmounts :
       Withdraw_Start(s, u, a, u)
  \/ \E s \in Slots : Withdraw_Hold(s)
  \/ \E s \in Slots : Withdraw_Available(s)
  \/ \E s \in Slots : Withdraw_Record(s)
  \/ \E tm \in timers : Withdraw_Timer(tm)

SpecFees == Init /\ [][NextFees]_vars

\* ------------------------------------------------ settlement of withdrawals
\* The settlement of a withdrawal is a setTimeout callback of the server
\* process: its db.transaction can throw (the catch only logs), and a restart
\* of the process loses the callbacks not yet run and the requests in flight.

\* the callback runs and its transaction throws: everything is rolled back
\* and the error is logged
Settlement_Throws(tm) ==
  /\ tm \in timers
  /\ tm.kind = "withdraw"
  /\ timers' = timers \ {tm}
  /\ UNCHANGED <<wallets, txs, holds, bills, banks, recipients, merchantStats,
                 charges, reqs, now, ops, qrCodes, reply>>

\* the server process restarts
Restart ==
  /\ timers # {} \/ \E s \in Slots : reqs[s].pc # "idle"
  /\ timers' = {}
  /\ reqs' = [s \in Slots |-> IdleReq]
  /\ UNCHANGED <<wallets, txs, holds, bills, banks, recipients, merchantStats,
                 charges, now, ops, qrCodes, reply>>

\* the steps a request in flight takes by itself
HandlerStep(s) ==
  \/ FundWallet_Initialize(s)
  \/ VerifyFunding_Gateway(s)
  \/ VerifyFunding_Failed(s)
  \/ VerifyFunding_Commit(s)
  \/ Withdraw_Hold(s)
  \/ Withdraw_Available(s)
  \/ Withdraw_Record(s)

\* the event loop runs a due callback
RunSettlement == \E tm \in timers : Withdraw_Timer(tm) \/ Settlement_Throws(tm)

NextSettle ==
  \/ \E s \in Slots, u \in Users, a \in FundAmounts : FundWallet_Start(s, u, a)
  \/ \E ref \in DOMAIN charges : Gateway_Pay(ref)
  \/ \E s \in Slots, ref \in References : VerifyFunding_Start(s, ref)
  \/ \E s \in Slots, u \in Users, a \in WithdrawAmounts, b \in Users :
       Withdraw_Start(s, u, a, b)
  \/ \E s \in Slots : HandlerStep(s)
  \/ RunSettlement
  \/ Restart

\* Node runs every started handler to its end and every due timer, as long
\* as the process lives
SpecSettle ==
  /\ Init
  /\ [][NextSettle]_vars
  /\ \A s \in Slots : WF_vars(HandlerStep(s))
  /\ WF_vars(RunSettlement)

\* ------------------------------------------------------------------ queries
\* getWallet, getTransactions and getWalletStats are tRPC queries: selects
\* only.  Each is one step that leaves its return value in reply (the rows
\* of a page and the top merchants are not carried); like the money requests
\* they are counted against MaxOps.

\* sum(walletTransactions.amount) over the user's completed records of type
\* transfer, payment or withdrawal; the sum over no row is null, read as 0
SpendTotal(u) ==
  LET f[i \in 0..Len(txs)] ==
        IF i = 0 THEN 0
        ELSE f[i - 1] + (IF /\ txs[i].walletId = u
                            /\ txs[i].status = "completed"
                            /\ txs[i].type \in {"transfer", "payment", "withdrawal"}
                         THEN txs[i].amount ELSE 0)
  IN f[Len(txs)]

QueryError(op, u) == [op |-> op, user |-> u, error |-> "NOT_FOUND"]

\* a getWallet that creates the missing wallet instead of throwing NOT_FOUND
GetWallet_GetOrCreate(u) ==
  /\ ops < MaxOps
  /\ ops' = ops + 1
  /\ reply' = [op |-> "getWallet", user |-> u, error |-> "",
               balance |-> wallets[u].balance,
               availableBalance |-> wallets[u].availableBalance,
               dailyLimit |-> wallets[u].dailyLimit,
               monthlyLimit |-> wallets[u].monthlyLimit,
               dailySpent |-> SpendTotal(u), monthlySpent |-> SpendTotal(u),
               dailyLimitRemaining |-> wallets[u].dailyLimit - SpendTotal(u),
               monthlyLimitRemaining |-> wallets[u].monthlyLimit - SpendTotal(u)]
  /\ wallets' = IF wallets[u].exists THEN wallets
                ELSE [wallets EXCEPT ![u] = NewWallet]
  /\ UNCHANGED <<txs, holds, bills, banks, recipients, merchantStats,
                 charges, reqs, timers, now, qrCodes>>

GetWallet(u) ==
  /\ ops < MaxOps
  /\ ops' = ops + 1
  /\ reply' = IF ~wallets[u].exists THEN QueryError("getWallet", u)
              ELSE [op |-> "getWallet", user |-> u, error |-> "",
                    balance |-> wallets[u].balance,
                    availableBalance |-> wallets[u].availableBalance,
                    dailyLimit |-> wallets[u].dailyLimit,
                    monthlyLimit |-> wallets[u].monthlyLimit,
                    dailySpent |-> SpendTotal(u),
                    monthlySpent |-> SpendTotal(u),
                    dailyLimitRemaining |-> wallets[u].dailyLimit - SpendTotal(u),
                    monthlyLimitRemaining |-> wallets[u].monthlyLimit - SpendTotal(u)]
  /\ UNCHANGED <<wallets, txs, holds, bills, banks, recipients, merchantStats,
                 charges, reqs, timers, now, qrCodes>>

\* Math.ceil(total / limit)
CeilDiv(total, limit) == (total + limit - 1) \div limit

\* the count query of getTransactions: every record of the wallet
WalletRecords(u) == Cardinality({i \in TxIds : txs[i].walletId = u})

PageLimit == 20
GetTransactions(u, page) ==
  /\ ops < MaxOps
  /\ ops' = ops + 1
  /\ reply' = IF ~wallets[u].exists THEN QueryError("getTransactions", u)
              ELSE [op |-> "getTransactions", user |-> u, error |-> "",
                    page |-> page, limit |-> PageLimit,
                    total |-> WalletRecords(u),
                    totalPages |-> CeilDiv(WalletRecords(u), PageLimit)]
  /\ UNCHANGED <<wallets, txs, holds, bills, banks, recipients, merchantStats,
                 charges, reqs, timers, now, qrCodes>>

\* the wallet's completed records
CompletedOn(u) == {i \in TxIds : txs[i].walletId = u /\ txs[i].status = "completed"}

\* Math.abs of sum(amount) over the wallet's completed records with amount < 0
TotalSpent(u) ==
  LET f[i \in 0..Len(txs)] ==
        IF i = 0 THEN 0
        ELSE f[i - 1] + (IF /\ txs[i].walletId = u
                            /\ txs[i].status = "completed"
                            /\ txs[i].amount < 0
                         THEN -txs[i].amount ELSE 0)
  IN f[Len(txs)]

GetWalletStats(u) ==
  /\ ops < MaxOps
  /\ ops' = ops + 1
  /\ reply' = IF ~wallets[u].exists THEN QueryError("getWalletStats", u)
              ELSE [op |-> "getWalletStats", user |-> u, error |-> "",
                    totalTransactions |-> Cardinality(CompletedOn(u)),
                    totalSpent |-> TotalSpent(u),
                    balance |-> wallets[u].balance,
                    availableBalance |-> wallets[u].availableBalance]
  /\ UNCHANGED <<wallets, txs, holds, bills, banks, recipients, merchantStats,
                 charges, reqs, timers, now, qrCodes>>

\* The money handlers with the queries asked in any state between their steps.
NextQueries ==
  \/ \E s \in Slots, u \in Users, a \in FundAmounts : FundWallet_Start(s, u, a)
  \/ \E s \in Slots : FundWallet_Initialize(s)
  \/ \E ref \in DOMAIN charges : Gateway_Pay(ref)
  \/ \E s \in Slots, ref \in References : VerifyFunding_Start(s, ref)
  \/ \E s \in Slots : VerifyFunding_Gateway(s)
  \/ \E s \in Slots : VerifyFunding_Failed(s)
  \/ \E s \in Slots : VerifyFunding_Commit(s)
  \/ \E s \in Slots, u \in Users, a \in TransferAmounts, target \in Users :
       Transfer_Start(s, u, a, target)
  \/ \E s \in Slots : Transfer_Limits(s)
  \/ \E s \in Slots : Transfer_Recipient(s)
  \/ \E s \in Slots : Transfer_Commit(s)
  \/ \E s \in Slots, u \in Users, a \in WithdrawAmounts :
       Withdraw_Start(s, u, a, u)
  \/ \E s \in Slots : Withdraw_Hold(s)
  \/ \E s \in Slots : Withdraw_Available(s)
  \/ \E s \in Slots : Withdraw_Record(s)
  \/ \E tm \in timers : Withdraw_Timer(tm)
  \/ \E u \in Users : GetWallet(u)
  \/ \E u \in Users, page \in {1, 2} : GetTransactions(u, page)
  \/ \E u \in Users : GetWalletStats(u)

SpecQueries == Init /\ [][NextQueries]_vars

\* ------------------------------------------------------------------ QR codes
QRRef(id) == <<"QR", id, "">>
QRAmounts == {2000}

\* generateQRCode: wallet lookup, then the insert into wallet_qr_codes; amount
\* 0 stands for no amount given (a static code, amount NULL).  The column
\* defaults give isActive = true, scanCount = 0 and no expiresAt.
GenerateQRCode(u, amount) ==
  /\ ops < MaxOps
  /\ ops' = ops + 1
  /\ IF ~wallets[u].exists
       THEN /\ reply' = [op |-> "generateQRCode", user |-> u, error |-> "NOT_FOUND"]
            /\ UNCHANGED qrCodes
       ELSE /\ qrCodes' = Append(qrCodes,
                 [userId |-> u, walletId |-> u, amount |-> amount,
                  reference |-> QRRef(ops + 1), isActive |-> TRUE,
                  scanCount |-> 0])
            /\ reply' = [op |-> "generateQRCode", user |-> u, error |-> "",
                         reference |-> QRRef(ops + 1)]
  /\ UNCHANGED <<wallets, txs, holds, bills, banks, recipients, merchantStats,
                 charges, reqs, timers, now>>

\* the error scanQRCode throws for the code q of the table (q = 0: a reference
\* that is not in the table), "" when every check passes
ScanError(u, q, pinValid) ==
  IF q \notin DOMAIN qrCodes \/ ~qrCodes[q].isActive THEN "BAD_REQUEST"
  ELSE IF ~wallets[u].exists THEN "NOT_FOUND"
  ELSE IF ~pinValid THEN "UNAUTHORIZED"
  ELSE IF ~wallets[qrCodes[q].walletId].exists THEN "NOT_FOUND"
  ELSE IF qrCodes[q].walletId = u THEN "BAD_REQUEST"
  ELSE IF qrCodes[q].amount <= 0 THEN "BAD_REQUEST"
  ELSE IF qrCodes[q].amount > wallets[u].availableBalance THEN "BAD_REQUEST"
  ELSE ""

\* scanQRCode: the checks, then scanCount + 1 on the code's row and the
\* return of success; the handler writes nothing else
ScanQRCode(u, q, pinValid) ==
  /\ ops < MaxOps
  /\ ops' = ops + 1
  /\ IF ScanError(u, q, pinValid) # ""
       THEN /\ reply' = [op |-> "scanQRCode", user |-> u, success |-> FALSE,
                         error |-> ScanError(u, q, pinValid),
                         amount |-> 0, recipient |-> 0]
            /\ UNCHANGED qrCodes
       ELSE /\ qrCodes' = [qrCodes EXCEPT ![q].scanCount = @ + 1]
            /\ reply' = [op |-> "scanQRCode", user |-> u, success |-> TRUE,
                         error |-> "", amount |-> qrCodes[q].amount,
                         recipient |-> qrCodes[q].userId]
  /\ UNCHANGED <<wallets, txs, holds, bills, banks, recipients, merchantStats,
                 charges, reqs, timers, now>>

\* funding and transfers, with QR codes generated and scanned between them
NextQR ==
  \/ \E s \in Slots, u \in Users, a \in FundAmounts : FundWallet_Start(s, u, a)
  \/ \E s \in Slots : FundWallet_Initialize(s)
  \/ \E ref \in DOMAIN charges : Gateway_Pay(ref)
  \/ \E s \in Slots, ref \in References : VerifyFunding_Start(s, ref)
  \/ \E s \in Slots : VerifyFunding_Gateway(s)
  \/ \E s \in Slots : VerifyFunding_Failed(s)
  \/ \E s \in Slots : VerifyFunding_Commit(s)
  \/ \E s \in Slots, u \in Users, a \in TransferAmounts, target \in Users :
       Transfer_Start(s, u, a, target)
  \/ \E s \in Slots : Transfer_Limits(s)
  \/ \E s \in Slots : Transfer_Recipient(s)
  \/ \E s \in Slots : Transfer_Commit(s)
  \/ \E u \in Users, a \in QRAmounts \cup {0} : GenerateQRCode(u, a)
  \/ \E u \in Users, q \in DOMAIN qrCodes \cup {0}, pinValid \in BOOLEAN :
       ScanQRCode(u, q, pinValid)

SpecQR == Init /\ [][NextQR]_vars

\* ======================================================================
\* Properties
\* ======================================================================
Terminal == {"completed", "failed", "cancelled"}
Idle == \A s \in Slots : reqs[s].pc = "idle"

\* sum of the wallet's active (unreleased) holds
ActiveHolds(u) ==
  LET f[i \in 0..Len(holds)] ==
        IF i = 0 THEN 0
        ELSE f[i - 1] + (IF holds[i].walletId = u /\ ~holds[i].released
                         THEN holds[i].amount ELSE 0)
  IN f[Len(holds)]

\* sum of netAmount over the wallet's completed records
Replay(u) ==
  LET f[i \in 0..Len(txs)] ==
        IF i = 0 THEN 0
        ELSE f[i - 1] + (IF txs[i].walletId = u /\ txs[i].status = "completed"
                         THEN txs[i].netAmount ELSE 0)
  IN f[Len(txs)]

\* i completes before j: by completion time, then by insertion order
CompletedBefore(i, j) ==
  \/ txs[i].completedAt < txs[j].completedAt
  \/ txs[i].completedAt = txs[j].completedAt /\ i < j


\* the request in slot s performs its db.transaction in this step
Commits(s, pc) == reqs[s].pc = pc /\ reqs'[s].pc = "idle" /\ txs' # txs

\* C1: of two transfers that debit the same wallet concurrently for more than
\* its availableBalance covers together, only one succeeds: a transfer never
\* commits a debit larger than the sender's availableBalance at that moment.
C1_NeverBothSucceed ==
  [][\A s \in Slots :
       Commits(s, "transfer_commit")
         => reqs[s].amount <= wallets[reqs[s].user].availableBalance]_vars

\* C2: a verifyFunding that reaches a record already completed or failed
\* leaves every wallet's balance and availableBalance unchanged.
C2_VerifyCreditsOnce ==
  [][\A s \in Slots :
       (/\ reqs[s].pc = "verify_commit"
        /\ reqs'[s].pc = "idle"
        /\ txs[TxOf(reqs[s].t.reference)].status \in Terminal)
         => wallets' = wallets]_vars

\* C3: every wallet has balance >= 0 and availableBalance >= 0.
C3_NonNegative ==
  \A u \in Users : wallets[u].balance >= 0 /\ wallets[u].availableBalance >= 0

\* C5: between operations, for every wallet, balance minus its active holds
\* is >= 0 and availableBalance equals balance minus its active holds.
\* (Stated for the wallets whose balance is not negative, so that a violation
\* is one of hold accounting and not the negative balance of C3.)
C5_HoldConservation ==
  Idle => \A u \in Users :
            wallets[u].balance >= 0 =>
              /\ wallets[u].balance - ActiveHolds(u) >= 0
              /\ wallets[u].availableBalance = wallets[u].balance - ActiveHolds(u)

\* C6: every wallet satisfies availableBalance <= balance.
C6_AvailableAtMostBalance ==
  \A u \in Users : wallets[u].availableBalance <= wallets[u].balance

\* C7: every completed record satisfies balanceAfter = balanceBefore + netAmount.
C7_RecordArithmetic ==
  \A i \in TxIds :
    txs[i].status = "completed"
      => txs[i].balanceAfter = txs[i].balanceBefore + txs[i].netAmount

\* C8: between operations, adding the netAmount of a wallet's completed
\* records to the initial balance 0 yields the wallet's balance.
C8_ReplayGivesBalance ==
  Idle => \A u \in Users : Replay(u) = wallets[u].balance

\* the record belongs to a merchant payment whose payer owns the merchant
OwnMerchantPayment(i) ==
  /\ txs[i].reference[1] = "MERCH"
  /\ \E j, k \in TxIds :
       /\ txs[j].reference = MerchantRef(txs[i].reference[2], "S")
       /\ txs[k].reference = MerchantRef(txs[i].reference[2], "M")
       /\ txs[j].walletId = txs[k].walletId

\* C9: between operations, in completion order, each completed record's
\* balanceAfter is the next completed record's balanceBefore.  (Payments to
\* the payer's own merchant, the subject of C19, are set aside so that a
\* violation is one of ordering.)
C9_NoGaps ==
  Idle => \A u \in Users : \A i, j \in CompletedOn(u) :
            (/\ ~OwnMerchantPayment(i) /\ ~OwnMerchantPayment(j)
             /\ CompletedBefore(i, j)
             /\ ~\E k \in CompletedOn(u) : CompletedBefore(i, k) /\ CompletedBefore(k, j))
              => txs[i].balanceAfter = txs[j].balanceBefore

\* C10: once a record is completed, failed or cancelled its status never
\* changes.
C10_TerminalIsFinal ==
  [][\A i \in TxIds :
       txs[i].status \in Terminal => txs'[i].status = txs[i].status]_vars

\* the references of the records in table t that belong to request id of kind
LegsIn(t, kind, id) ==
  {t[i].reference[3] : i \in {k \in 1..Len(t) : /\ t[k].reference[1] = kind
                                                 /\ t[k].reference[2] = id}}

\* the legs a committed transfer or merchant payment must have written
ExpectedLegs(t, kind, id) ==
  IF kind = "TRF" THEN {"S", "R", "F"}
  ELSE IF \E k \in 1..Len(t) : /\ t[k].reference = MerchantRef(id, "M")
                               /\ t[k].fee > 0
         THEN {"S", "M", "F"}
         ELSE {"S", "M"}

\* in table t, every transfer / merchant payment has all of its records and
\* the receiver's credit record matches the sender's debit record
WholeMoves(t) ==
  \A i \in 1..Len(t) :
    t[i].reference[1] \in {"TRF", "MERCH"} =>
      LET kind == t[i].reference[1]
          id == t[i].reference[2]
      IN /\ LegsIn(t, kind, id) = ExpectedLegs(t, kind, id)
         /\ \A a, b \in 1..Len(t) :
              (/\ t[a].reference = <<kind, id, "S">>
               /\ t[b].reference = <<kind, id, IF kind = "TRF" THEN "R" ELSE "M">>)
                => t[b].amount = -t[a].amount - (t[a].fee + t[b].fee)

\* the wallet that receives the money of request r
Receiver(r) == IF r.op = "transfer" THEN r.target ELSE Merchants[r.target].userId
ReceiverNet(r) ==
  IF r.op = "transfer" THEN r.amount - TransferFee(r.amount)
  ELSE r.amount - MerchantFee(r.amount, Merchants[r.target].transactionFeePercentage)

\* a step of a transfer or payMerchant request past its first lookup writes
\* nothing, or writes the sender's debit, the receiver's credit and all of
\* the records together
AtomicMove(s) ==
  LET r == reqs[s] IN
  (r.op \in {"transfer", "payMerchant"} /\ reqs'[s] # r) =>
    \/ /\ wallets' = wallets
       /\ txs' = txs
    \/ /\ r.user # Receiver(r) =>
            /\ wallets'[r.user].balance = r.w.balance - r.amount
            /\ wallets'[r.user].availableBalance = r.w.availableBalance - r.amount
       /\ wallets'[Receiver(r)].balance = r.w2.balance + ReceiverNet(r)
       /\ wallets'[Receiver(r)].availableBalance =
            r.w2.availableBalance + ReceiverNet(r)
       /\ Len(txs') > Len(txs)
       /\ LegsIn(txs', IF r.op = "transfer" THEN "TRF" ELSE "MERCH", r.id) # {}

Spent(u) ==
  LET f[i \in 0..Len(txs)] ==
        IF i = 0 THEN 0
        ELSE f[i - 1] + (IF /\ txs[i].walletId = u
                            /\ txs[i].status = "completed"
                            /\ txs[i].type \in {"transfer", "payment", "withdrawal"}
                            /\ txs[i].amount < 0
                         THEN -txs[i].amount ELSE 0)
  IN f[Len(txs)]

\* C11: a transfer whose amount, added to what the wallet has already spent
\* in the day (or month), exceeds dailyLimit (or monthlyLimit) is rejected at
\* the limit check, before any mutation.
C11_LimitRejects ==
  [][\A s \in Slots :
       (/\ reqs[s].pc = "transfer_limits"
        /\ reqs'[s] # reqs[s]
        /\ \/ Spent(reqs[s].user) + reqs[s].amount > wallets[reqs[s].user].dailyLimit
           \/ Spent(reqs[s].user) + reqs[s].amount > wallets[reqs[s].user].monthlyLimit)
         => /\ reqs'[s].pc = "idle"
            /\ UNCHANGED <<wallets, txs, holds, bills, recipients>>]_vars

\* the records of the transfers: sender leg, recipient leg, fee leg
SenderLegs == {i \in TxIds : txs[i].reference[1] = "TRF" /\ txs[i].reference[3] = "S"}
LegOf(i, leg) == TxOf(TransferRef(txs[i].reference[2], leg))

\* C12: for every completed transfer, the magnitude of the sender's debit
\* equals the recipient's credit plus the magnitude of the fee record, and the
\* fee is 0.5% of the transferred amount, rounded, and at least 100.
C12_Conservation ==
  \A i \in SenderLegs :
    txs[i].status = "completed" =>
      LET a == -txs[i].amount
          credit == txs[LegOf(i, "R")]
          feeRec == txs[LegOf(i, "F")]
      IN /\ TransferRef(txs[i].reference[2], "R") \in References
         /\ TransferRef(txs[i].reference[2], "F") \in References
         /\ a > 0
         /\ a = credit.amount + (-feeRec.amount)
         /\ -feeRec.amount = Max(100, (2 * 5 * a + 1000) \div 2000)
         /\ txs[i].fee = -feeRec.amount
         /\ credit.status = "completed" /\ feeRec.status = "completed"

\* C12 witness: a completed transfer of 6000 and one of 50 (fee above the amount)
C12_Witness ==
  /\ \E i \in SenderLegs : txs[i].amount = -6000 /\ txs[i].status = "completed"
  /\ \E i \in SenderLegs : txs[i].amount = -50 /\ txs[i].status = "completed"

\* the transfer in slot s runs alone: no other request is in flight and no
\* write has reached the sender's or the recipient's row since it read them
RunsAlone(s) ==
  /\ \A o \in Slots \ {s} : reqs[o].pc = "idle"
  /\ reqs[s].w = wallets[reqs[s].user]
  /\ reqs[s].w2 = wallets[reqs[s].target]

\* the records a step appends to the transactions table
NewRecords == {i \in 1..Len(txs') : i > Len(txs)}

\* C13: a successful transfer of a run alone from A to B lowers A's balance
\* and availableBalance by a, raises B's by a - fee, adds one sender, one
\* recipient and one fee record with three new, pairwise distinct references,
\* and returns A's stored balance as newBalance (a = 5000 has fee 100).
C13_TransferAlone ==
  /\ [](TransferFee(5000) = 100)
  /\ [][\A s \in Slots :
          (Commits(s, "transfer_commit") /\ RunsAlone(s)) =>
            LET r == reqs[s]
                A == r.user
                B == r.target
                fee == TransferFee(r.amount)
            IN /\ wallets'[A].balance = wallets[A].balance - r.amount
               /\ wallets'[A].availableBalance = wallets[A].availableBalance - r.amount
               /\ wallets'[B].balance = wallets[B].balance + (r.amount - fee)
               /\ wallets'[B].availableBalance =
                    wallets[B].availableBalance + (r.amount - fee)
               /\ \A u \in Users \ {A, B} : wallets'[u] = wallets[u]
               /\ Cardinality(NewRecords) = 3
               /\ \A i \in TxIds : txs'[i] = txs[i]
               /\ Cardinality({txs'[i].reference : i \in NewRecords}) = 3
               /\ {txs'[i].reference : i \in NewRecords} \cap References = {}
               /\ Cardinality({i \in NewRecords : /\ txs'[i].walletId = A
                                                  /\ txs'[i].type = "transfer"
                                                  /\ txs'[i].amount = -r.amount}) = 1
               /\ Cardinality({i \in NewRecords : /\ txs'[i].walletId = B
                                                  /\ txs'[i].type = "transfer"
                                                  /\ txs'[i].amount = r.amount - fee}) = 1
               /\ Cardinality({i \in NewRecords : /\ txs'[i].type = "fee"
                                                  /\ txs'[i].amount = -fee}) = 1
               /\ TransferResult(r).newBalance = wallets'[A].balance
               /\ TransferResult(r).fee = fee]_vars

\* C13 witness: a transfer of 6000 was committed on a sender holding 10000:
\* the sender's record shows 10000 -> 4000 and the recipient's a credit of 5900
C13_Witness ==
  \E i, j \in TxIds :
    /\ txs[i].reference[1] = "TRF" /\ txs[i].reference[3] = "S"
    /\ txs[i].balanceBefore = 10000 /\ txs[i].balanceAfter = 4000
    /\ txs[j].reference = TransferRef(txs[i].reference[2], "R")
    /\ txs[j].amount = 5900
    /\ wallets[txs[i].walletId].balance = 4000
    /\ wallets[txs[j].walletId].balance = txs[j].balanceAfter
    /\ Idle

\* the wallet row the request in slot s read is still the stored row
Fresh(s) == reqs[s].w = wallets[reqs[s].user]

\* the request in slot s takes a step from position pc
StepsFrom(s, pc) == reqs[s].pc = pc /\ reqs'[s] # reqs[s]

C14_RejectedCase ==
  \E s \in Slots :
    /\ reqs[s].pc = "withdraw_hold"
    /\ Fresh(s)
    /\ reqs[s].target \in banks
    /\ reqs[s].amount + WithdrawFee > wallets[reqs[s].user].availableBalance

\* the withdrawal of request id is recorded and not terminal
WithdrawalOpen(id) ==
  \E i \in TxIds : /\ txs[i].reference = WithdrawRef(id)
                   /\ txs[i].status \notin Terminal

\* the withdrawal of request id is terminal and its hold is released
WithdrawalClosed(id) ==
  /\ \E i \in TxIds : /\ txs[i].reference = WithdrawRef(id)
                      /\ txs[i].status \in {"completed", "failed"}
  /\ \A h \in 1..Len(holds) : holds[h].reference = WithdrawRef(id) => holds[h].released

\* C15: every withdrawal in status processing eventually reaches completed or
\* failed with its hold released, also when the settlement throws, never
\* runs, or the process restarts before it runs.
C15_EventuallySettled ==
  \A id \in 1..MaxOps : WithdrawalOpen(id) ~> WithdrawalClosed(id)

\* the step settles the withdrawal of callback tm
Settles(tm) ==
  /\ tm.kind = "withdraw"
  /\ tm \notin timers'
  /\ txs[TxOf(tm.reference)].status = "processing"
  /\ txs'[TxOf(tm.reference)].status = "completed"

\* C16: when a withdrawal settles its hold is released, its record becomes
\* completed, and the wallet's balance becomes the balance it had just before
\* the settlement minus amount + fee, whatever completed on the wallet since
\* the withdraw request.
C16_SettlementDebitsOnce ==
  [][\A tm \in timers :
       Settles(tm) =>
         /\ \A h \in 1..Len(holds') :
              holds'[h].reference = tm.reference => holds'[h].released
         /\ wallets'[tm.user].balance =
              wallets[tm.user].balance + txs[TxOf(tm.reference)].netAmount]_vars

\* C17: when verifyFunding runs on a pending funding record and the gateway
\* reports failure, the record goes from pending to failed with a failure
\* reason, the call ends with an error (it never reaches the credit) and every
\* wallet's balance and availableBalance stay as they are.
C17_VerifyFailure ==
  [][\A s \in Slots :
       LET ref == reqs[s].t.reference IN
       (/\ StepsFrom(s, "verify_failed")
        /\ txs[TxOf(ref)].status = "pending") =>
          /\ txs'[TxOf(ref)].status = "failed"
          /\ txs'[TxOf(ref)].failureReason # ""
          /\ \A i \in TxIds \ {TxOf(ref)} : txs'[i] = txs[i]
          /\ reqs'[s].pc = "idle"
          /\ wallets' = wallets
          /\ UNCHANGED <<holds, bills>>]_vars

\* C17 witness: a funding record is failed with its reason, its charge unpaid,
\* and the wallet still as initialize left it
C17_Witness ==
  \E i \in TxIds :
    /\ txs[i].type = "deposit"
    /\ txs[i].status = "failed"
    /\ txs[i].failureReason = "Payment failed"
    /\ charges[txs[i].reference] = "pending"
    /\ wallets[txs[i].walletId] = NewWallet
    /\ Idle

\* the positions at which transfer, payMerchant and withdraw validate their
\* input after the first lookup (payBill validates in its first step only)
ValidationSteps ==
  {"transfer_limits", "transfer_recipient", "merchant_lookup", "withdraw_hold"}

\* the request in slot s is rejected by a validation in this step
Rejected(s) ==
  /\ reqs[s].pc \in ValidationSteps
  /\ reqs'[s].pc = "idle"

\* C18: a transfer, payMerchant, payBill or withdraw call that fails a
\* validation leaves every wallet, transaction, hold, bill and recipient
\* record as it was.
C18_FailedValidationWritesNothing ==
  [][\A s \in Slots :
       Rejected(s) =>
         UNCHANGED <<wallets, txs, holds, bills, recipients, merchantStats,
                     timers, charges>>]_vars

\* C18 witness: with a funded wallet on record, a transfer to the caller's
\* own wallet and a withdrawal to a bank account that is not the caller's
\* stand at the validation that rejects them
C18_Witness ==
  /\ \E u \in Users : wallets[u].balance = 10000
  /\ txs # <<>>
  /\ \E s \in Slots : /\ reqs[s].pc = "transfer_recipient"
                      /\ reqs[s].target = reqs[s].user
  /\ \E s \in Slots : /\ reqs[s].pc = "withdraw_hold"
                      /\ reqs[s].target \notin banks

\* C19: no transfer and no merchant payment succeeds when the sender's wallet
\* and the receiving wallet are the same wallet: a transfer to oneself and a
\* payment to a merchant the caller owns are rejected and change no balance.
C19_NoSelfPayment ==
  [][\A s \in Slots :
       (/\ reqs[s].op \in {"transfer", "payMerchant"}
        /\ reqs'[s] # reqs[s]
        /\ reqs[s].pc \in {"transfer_commit", "merchant_commit"}
        /\ reqs[s].user = Receiver(reqs[s]))
         => /\ reqs'[s].pc = "idle"
            /\ UNCHANGED <<wallets, txs>>]_vars

\* C20: an initialize call by a user who has a wallet fails at the existence
\* check; whatever the interleaving of initialize calls, each user has at
\* most one wallet; and only the insert of initialize creates a wallet.
C20_OneWalletPerUser ==
  /\ [](\A u \in Users : /\ wallets[u].rows <= 1
                         /\ wallets[u].exists <=> wallets[u].rows = 1)
  /\ [][\A s \in Slots :
          (reqs[s].pc = "idle" /\ reqs'[s].op = "initialize")
            => ~wallets[reqs'[s].user].exists]_vars
  /\ [][\A u \in Users :
          wallets'[u].rows # wallets[u].rows =>
            /\ wallets[u] = NoWallet
            /\ wallets'[u] = NewWallet
            /\ \E s \in Slots : /\ reqs[s].op = "initialize"
                                /\ reqs[s].user = u
                                /\ StepsFrom(s, "init_insert")]_vars

\* C20 witness: two initialize calls of one user passed the existence check
\* together; the first has inserted the wallet and the second stands at its
\* insert
C20_Witness ==
  \E s \in Slots :
    /\ reqs[s].op = "initialize"
    /\ reqs[s].pc = "init_insert"
    /\ wallets[reqs[s].user] = NewWallet
    /\ \A o \in Slots \ {s} : reqs[o].pc = "idle"

\* k is n / d rounded to the nearest whole number, a half rounded up:
\* k - 1/2 <= n / d < k + 1/2
IsHalfUp(k, n, d) == 2 * k * d <= 2 * n + d /\ 2 * n + d < 2 * (k + 1) * d

\* k is the larger of the minimum fee and n / d rounded half-up
IsHalfUpAtLeast(k, min, n, d) ==
  \/ k = min /\ 2 * n + d < 2 * (min + 1) * d
  \/ k > min /\ IsHalfUp(k, n, d)

\* C21: every fee charged is the fee table's, rounded half-up: funding
\* round(amount * 1.5%) with netAmount = amount - fee, transfer
\* max(100, round(amount * 0.5%)), bill payment max(200, round(amount * 1.5%)),
\* withdrawal 1500 flat.
C21_FeeTable ==
  \A i \in TxIds :
    LET t == txs[i] IN
    /\ t.type = "deposit" =>
         /\ IsHalfUp(t.fee, t.amount * 15, 1000)
         /\ t.netAmount = t.amount - t.fee
    /\ (t.type = "transfer" /\ t.reference[3] = "S") =>
         /\ IsHalfUpAtLeast(t.fee, 100, (-t.amount) * 5, 1000)
         /\ txs[LegOf(i, "F")].amount = -t.fee
         /\ txs[LegOf(i, "R")].amount = (-t.amount) - t.fee
    /\ t.type = "bill_payment" =>
         /\ IsHalfUpAtLeast(t.fee, 200, (-t.amount - t.fee) * 15, 1000)
         /\ -t.amount - t.fee \in FeeBillAmounts
    /\ t.type = "withdrawal" =>
         /\ t.fee = 1500
         /\ -t.amount - t.fee \in WithdrawAmounts

\* C21 witness: fees on both sides of a rounding step have been charged: a
\* funding of 50100 at 752, a transfer of 20100 at 101 and a bill of 13500 at
\* 203
C21_Witness ==
  /\ \E i \in TxIds : txs[i].type = "deposit" /\ txs[i].amount = 50100
                      /\ txs[i].fee = 752 /\ txs[i].status = "completed"
  /\ \E i \in TxIds : txs[i].type = "transfer" /\ txs[i].amount = -20100
                      /\ txs[i].fee = 101
  /\ \E i \in TxIds : txs[i].type = "bill_payment" /\ txs[i].fee = 203

\* ---------------------------------------------------------------- C22
\* the fee the fee table states for a payment of amount to merchant m: the
\* merchant's own percentage when the row was given one, 1% otherwise
TableMerchantFee(amount, m) ==
  IF Merchants[m].feeSet
    THEN RoundDiv(amount * Merchants[m].transactionFeePercentage[1], 10000)
    ELSE RoundDiv(amount * 1, 100)

\* C22: a merchant payment by another user, run alone on fresh rows, records
\* and charges the fee of the fee table (1% for a merchant registered without
\* a percentage): the sender's balance drops by amount, the merchant's wallet
\* rises by amount - fee, and the merchant's record carries that fee.
C22_MerchantFee ==
  [][\A s \in Slots :
       (/\ Commits(s, "merchant_commit")
        /\ \A o \in Slots \ {s} : reqs[o].pc = "idle"
        /\ reqs[s].user # Merchants[reqs[s].target].userId
        /\ reqs[s].w = wallets[reqs[s].user]
        /\ reqs[s].w2 = wallets[Merchants[reqs[s].target].userId]) =>
         LET r == reqs[s]
             owner == Merchants[r.target].userId
             fee == TableMerchantFee(r.amount, r.target)
         IN /\ wallets'[r.user].balance = wallets[r.user].balance - r.amount
            /\ wallets'[owner].balance = wallets[owner].balance + r.amount - fee
            /\ \E i \in NewRecords :
                 /\ txs'[i].reference = MerchantRef(r.id, "M")
                 /\ txs'[i].fee = fee
                 /\ txs'[i].amount = r.amount - fee]_vars

\* user 2 has paid 2000 to merchant 1, whose row holds the column default:
\* the merchant's record has fee 0 and amount 2000, where 1% is 20 and 1980
C22_DefaultRowPaysNoFee ==
  \E i \in TxIds :
    /\ txs[i].reference[1] = "MERCH" /\ txs[i].reference[3] = "M"
    /\ txs[i].walletId = 1
    /\ ~Merchants[1].feeSet
    /\ txs[i].fee = 0 /\ txs[i].amount = 2000
    /\ TableMerchantFee(2000, 1) = 20
    /\ \E j \in TxIds : /\ txs[j].reference = MerchantRef(txs[i].reference[2], "S")
                        /\ txs[j].walletId = 2

\* ---------------------------------------------------------------- C23
\* C23: getWallet, getTransactions and getWalletStats have no side effects:
\* every step of one of them, for every user and page and in every state,
\* leaves the wallets, the transactions, the holds, the bills, the bank
\* accounts, the merchants' statistics and the QR codes unchanged.
C23_QueriesReadOnly ==
  [][(\/ \E u \in Users : GetWallet(u)
      \/ \E u \in Users, page \in {1, 2} : GetTransactions(u, page)
      \/ \E u \in Users : GetWalletStats(u)) =>
       UNCHANGED <<wallets, txs, holds, bills, banks, recipients,
                   merchantStats, charges, timers, qrCodes>>]_vars

\* getWalletStats has answered for a funded wallet while a transfer from it
\* is in flight
C23_Witness ==
  /\ reply.op = "getWalletStats"
  /\ reply.error = ""
  /\ reply.totalTransactions >= 1
  /\ reply.balance > 0
  /\ reply.balance = wallets[reply.user].balance
  /\ \E s \in Slots : reqs[s].pc = "transfer_commit" /\ reqs[s].user = reply.user

\* ---------------------------------------------------------------- C24
\* C24: a scanQRCode that returns success has moved the code's amount as a
\* transfer does: the scanner's balance is lower by the amount, the owner's
\* higher by the amount less the transfer fee, and records were written.
C24_ScanMovesMoney ==
  [][\A u \in Users, q \in DOMAIN qrCodes :
       (ScanQRCode(u, q, TRUE) /\ reply'.success) =>
         LET amount == qrCodes[q].amount
             owner == qrCodes[q].walletId
         IN /\ wallets'[u].balance = wallets[u].balance - amount
            /\ wallets'[owner].balance =
                 wallets[owner].balance + amount - TransferFee(amount)
            /\ Len(txs') > Len(txs)]_vars

\* user 1 scanned user 2's code for 2000 and got success, and the ledger holds
\* nothing but user 1's deposit: no transfer record, both balances as the
\* funding left them
C24_SuccessWithoutTransfer ==
  /\ reply.op = "scanQRCode" /\ reply.success
  /\ reply.user = 1 /\ reply.amount = 2000 /\ reply.recipient = 2
  /\ \E q \in DOMAIN qrCodes : qrCodes[q].userId = 2 /\ qrCodes[q].scanCount = 1
  /\ \A i \in TxIds : txs[i].type = "deposit"
  /\ wallets[1].balance = 10000
  /\ wallets[2].balance = 0

\* ---------------------------------------------------------------- C25
\* C25: a bill payment holds, then settles.  The step that records it as
\* processing leaves the wallet's balance unchanged and adds a hold on the
\* wallet (availableBalance lower by amount + fee); the step that completes
\* it lowers the balance by amount + fee.
C25_BillHoldThenSettle ==
  [][/\ \A s \in Slots :
          (Commits(s, "bill_commit") /\ Fresh(s)) =>
            LET u == reqs[s].user
                totalAmount == reqs[s].amount + BillFee(reqs[s].amount)
            IN /\ wallets'[u].balance = wallets[u].balance
               /\ wallets'[u].availableBalance =
                    wallets[u].availableBalance - totalAmount
               /\ Len(holds') = Len(holds) + 1
      /\ \A tm \in timers :
          (tm.kind = "bill" /\ PayBill_Timer(tm)) =>
            wallets'[tm.user].balance < wallets[tm.user].balance]_vars

\* a bill payment is processing, its wallet already debited by amount + fee
\* and no hold placed
C25_DebitedWhileProcessing ==
  \E i \in TxIds :
    /\ txs[i].type = "bill_payment" /\ txs[i].status = "processing"
    /\ wallets[txs[i].walletId].balance = txs[i].balanceAfter
    /\ txs[i].balanceAfter = txs[i].balanceBefore + txs[i].amount
    /\ Len(holds) = 0

\* ---------------------------------------------------------------- C26
\* C26: money movements on the same wallet serialize.  Each successful
\* transfer, merchant payment (to another user's merchant) and funding credit
\* (of a record still pending) takes effect on the rows as they are stored
\* when it commits: the stored balance and availableBalance of every wallet
\* it touches move by its own debit or credit, so the final rows are those of
\* the operations run one after the other in commit order.
C26_Serializes ==
  [][\A s \in Slots :
       LET r == reqs[s] IN
       /\ Commits(s, "transfer_commit") =>
            LET netAmount == r.amount - TransferFee(r.amount) IN
            /\ wallets'[r.user].balance = wallets[r.user].balance - r.amount
            /\ wallets'[r.user].availableBalance =
                 wallets[r.user].availableBalance - r.amount
            /\ wallets'[r.target].balance = wallets[r.target].balance + netAmount
            /\ wallets'[r.target].availableBalance =
                 wallets[r.target].availableBalance + netAmount
       /\ (Commits(s, "merchant_commit") /\ r.user # Receiver(r)) =>
            /\ wallets'[r.user].balance = wallets[r.user].balance - r.amount
            /\ wallets'[r.user].availableBalance =
                 wallets[r.user].availableBalance - r.amount
            /\ wallets'[Receiver(r)].balance =
                 wallets[Receiver(r)].balance + ReceiverNet(r)
            /\ wallets'[Receiver(r)].availableBalance =
                 wallets[Receiver(r)].availableBalance + ReceiverNet(r)
       /\ (/\ Commits(s, "verify_commit")
           /\ txs[TxOf(r.t.reference)].status = "pending") =>
            /\ wallets'[r.t.walletId].balance =
                 wallets[r.t.walletId].balance + r.t.netAmount
            /\ wallets'[r.t.walletId].availableBalance =
                 wallets[r.t.walletId].availableBalance + r.t.netAmount]_vars

\* two transfers of 50 and 6000 from user 1 to user 2 ran concurrently and
\* both completed, and no request is in flight: user 2 holds less than the two
\* credits (5900 and -50 of net amount) add up to
C26_LostCredit ==
  /\ Idle
  /\ \E i, j \in SenderLegs :
       /\ txs[i].amount = -6000 /\ txs[j].amount = -50
       /\ txs[i].walletId = 1 /\ txs[j].walletId = 1
       /\ txs[LegOf(i, "R")].walletId = 2 /\ txs[LegOf(j, "R")].walletId = 2
  /\ wallets[2].balance # Replay(2)

\* ---------------------------------------------------------------- C27
\* the sum of all wallets' balances
TotalBalance(ws) ==
  LET f[u \in 0..NUsers] == IF u = 0 THEN 0 ELSE f[u - 1] + ws[u].balance
  IN f[NUsers]

\* what a step that writes balances does to the sum when every snapshot it
\* writes from is the stored row (no concurrency error): a transfer or a
\* merchant payment changes it by minus the fee, a funding credit, a bill
\* payment and a withdrawal settlement by the netAmount of their record
SumChanges ==
  \A s \in Slots :
    LET r == reqs[s] IN
    /\ (Commits(s, "transfer_commit") /\ RunsAlone(s)) =>
         TotalBalance(wallets') = TotalBalance(wallets) - TransferFee(r.amount)
    /\ (/\ Commits(s, "merchant_commit")
        /\ r.w = wallets[r.user]
        /\ r.w2 = wallets[Receiver(r)]) =>
         TotalBalance(wallets') =
           TotalBalance(wallets) - (r.amount - ReceiverNet(r))
    /\ (/\ Commits(s, "verify_commit")
        /\ txs[TxOf(r.t.reference)].status = "pending"
        /\ r.w = wallets[r.t.walletId]) =>
         TotalBalance(wallets') = TotalBalance(wallets) + r.t.netAmount
    /\ (Commits(s, "bill_commit") /\ Fresh(s)) =>
         TotalBalance(wallets') =
           TotalBalance(wallets) - (r.amount + BillFee(r.amount))

SettlementChanges ==
  \A tm \in timers :
    (/\ tm.kind = "withdraw"
     /\ Withdraw_Timer(tm)
     /\ tm.balance = wallets[tm.user].balance) =>
      TotalBalance(wallets') =
        TotalBalance(wallets) + txs[TxOf(tm.reference)].netAmount

\* C27: without concurrency errors every successful operation changes the
\* sum of the balances by its fee or its netAmount as above, and no transfer,
\* merchant payment or bill payment raises the sum.
C27_MoneyConserved ==
  [][/\ SumChanges
     /\ SettlementChanges
     /\ \A s \in Slots :
          (\/ Commits(s, "transfer_commit") /\ RunsAlone(s)
           \/ /\ Commits(s, "merchant_commit")
              /\ reqs[s].w = wallets[reqs[s].user]
              /\ reqs[s].w2 = wallets[Receiver(reqs[s])]
           \/ Commits(s, "bill_commit") /\ Fresh(s)) =>
            TotalBalance(wallets') <= TotalBalance(wallets)]_vars

\* the same statement for every payer but the merchant's owner
C27_ButForOwnMerchant ==
  [][/\ SettlementChanges
     /\ (\A s \in Slots : Commits(s, "merchant_commit") =>
                            reqs[s].user # Receiver(reqs[s])) => SumChanges]_vars

\* ---------------------------------------------------------------- C28
\* C28: the limit check is run by payMerchant, payBill and withdraw: a
\* request of one of them whose amount, added to what the wallet has spent in
\* the day (or month), exceeds dailyLimit (or monthlyLimit) mutates nothing.
C28_EverySpendLimited ==
  [][\A s \in Slots :
       (/\ reqs[s].op \in {"payMerchant", "payBill", "withdraw"}
        /\ reqs'[s] # reqs[s]
        /\ \/ Spent(reqs[s].user) + reqs[s].amount > wallets[reqs[s].user].dailyLimit
           \/ Spent(reqs[s].user) + reqs[s].amount > wallets[reqs[s].user].monthlyLimit)
         => UNCHANGED <<wallets, txs, holds, bills>>]_vars

\* user 1 has paid a merchant 600000 in a day against a dailyLimit of 500000,
\* and then placed a withdrawal of 300000
C28_SpentPastTheLimit ==
  /\ \E i \in TxIds : /\ txs[i].walletId = 1 /\ txs[i].type = "payment"
                      /\ txs[i].amount = -600000 /\ txs[i].status = "completed"
  /\ \E i \in TxIds : /\ txs[i].walletId = 1 /\ txs[i].type = "withdrawal"
  /\ wallets[1].dailyLimit = 500000

\* ---------------------------------------------------------------- C29
\* C29: when a bill payment fails (its transaction ends without scheduling a
\* completion), the wallet's balance and availableBalance are left as they
\* were and a record with the payment's reference and status failed
\* exists.
C29_FailedBillRecorded ==
  [][\A s \in Slots :
       (/\ reqs[s].pc = "bill_commit"
        /\ reqs'[s].pc = "idle"
        /\ timers' = timers) =>
         /\ wallets'[reqs[s].user] = wallets[reqs[s].user]
         /\ \E i \in 1..Len(txs') :
              /\ txs'[i].reference = BillRef(reqs[s].id)
              /\ txs'[i].status = "failed"]_vars

\* ---------------------------------------------------------------- C30
\* C30: getWallet reports dailySpent and monthlySpent as the wallet's
\* completed spend (the magnitudes of its completed outgoing transfers,
\* payments and withdrawals, never negative, money received not counted) and
\* the remaining limits as limit - spent, never above the limit.
C30_SpentTotals ==
  [][\A u \in Users :
       (GetWallet(u) /\ wallets[u].exists) =>
         /\ reply'.dailySpent >= 0
         /\ reply'.monthlySpent >= 0
         /\ reply'.dailySpent = Spent(u)
         /\ reply'.monthlySpent = Spent(u)
         /\ reply'.dailyLimitRemaining = wallets[u].dailyLimit - reply'.dailySpent
         /\ reply'.monthlyLimitRemaining = wallets[u].monthlyLimit - reply'.monthlySpent
         /\ reply'.dailyLimitRemaining <= wallets[u].dailyLimit
         /\ reply'.monthlyLimitRemaining <= wallets[u].monthlyLimit]_vars

\* getWallet has answered a wallet that sent 6000 with dailySpent = -6000 and
\* a remaining daily limit of 506000 against a limit of 500000
C30_NegativeSpend ==
  /\ reply.op = "getWallet" /\ reply.error = ""
  /\ reply.dailySpent = -6000
  /\ reply.dailyLimit = 500000
  /\ reply.dailyLimitRemaining = 506000

\* getWallet has answered a wallet that only received a transfer with a
\* positive dailySpent
C30_ReceiptCountedAsSpend ==
  /\ reply.op = "getWallet" /\ reply.error = ""
  /\ reply.dailySpent = 5900
  /\ Spent(reply.user) = 0

====
